---- MODULE Spec2Model ----
(***************************************************************************)
(* A model of discord/client.py (class Client): the listener registry     *)
(* (add_listener), the event dispatcher (handle_event), the command        *)
(* pipeline hanging off the default message_create handler, and the        *)
(* connection lifecycle (login, connect, alive_loop, close).               *)
(*                                                                         *)
(* asyncio is single-threaded and cooperative: a coroutine runs without    *)
(* interruption from one suspension point to the next.  Every action below *)
(* is one such uninterrupted stretch of one task.                          *)
(***************************************************************************)
EXTENDS Integers, Sequences, FiniteSets, TLC

VARIABLES
    loop,         \* self._loop: "None" until alive_loop stores the running loop
    events,       \* self.events: name -> list of persistent handlers
    once_events,  \* self.once_events: name -> list of one-shot handlers
    commands,     \* self.commands: insertion-ordered name -> Command
    tasks,        \* the tasks create_task has put on the loop and not yet run
    last,         \* what the most recent call of the registry, the dispatcher
                  \* or a handler task did (an observation, not program state)
    nreg,         \* number of add_listener calls so far
    ndispatch,    \* number of handle_event calls from outside so far
    closed,       \* self.closed
    token,        \* self.token ("unset" until login stores it)
    info,         \* self.info  ("unset" until a login succeeds)
    intents_ok,   \* isinstance(self.intents, Intents)
    lock,         \* self.lock: an asyncio.Lock
    ws,           \* self.ws: 0 while the attribute does not exist, else a Session
    sessions,     \* every WebSocket constructed so far: its state
    http_closed,  \* httphandler.close() has completed
    pc,           \* per task: where it is suspended
    frame,        \* per task: the call it is in and that call's locals
    ncalls        \* number of calls user tasks have started

dvars == <<loop, events, once_events, commands, tasks, last, nreg, ndispatch>>
cvars == <<closed, token, info, intents_ok, lock, ws, sessions, http_closed,
           pc, frame, ncalls>>
vars == <<loop, events, once_events, commands, tasks, last, nreg, ndispatch,
          closed, token, info, intents_ok, lock, ws, sessions, http_closed,
          pc, frame, ncalls>>

----------------------------------------------------------------------------
(* Bounds of the model *)

MaxReg == 2        \* add_listener calls explored
MaxDispatch == 2   \* handle_event calls from outside explored
MaxDepth == 3      \* nesting of handle_event at which the interpreter gives up
MaxCommands == 2   \* size of the command registry explored
MaxCalls == 2      \* calls the user tasks make in all
MaxSessions == 2   \* WebSocket objects constructed

----------------------------------------------------------------------------
(* Handlers, event names and payloads *)

\* The two bound methods __init__ installs, and the functions user code registers.
\* "ready" takes one argument, "typing_start" takes none; "sync_fn" is an
\* ordinary def, not a coroutine function.
BuiltinFuncs == {"handle_commands", "handle_event_error"}
UserFuncs == {"ready", "typing_start"}
Funcs == UserFuncs \cup {"sync_fn"}

iscoroutinefunction(f) == f # "sync_fn"

\* Number of positional parameters the function accepts.
Arity(f) == IF f = "typing_start" THEN 0 ELSE 1

\* Keys of the two listener tables: the names events are dispatched under and
\* the names functions carry (a listener registered without a name goes under
\* its function's name).
Keys == {"message_create", "event_error", "ready"}

None == "None"

\* msg["t"] as it arrives, and str.lower() of it.
WireNames == {"MESSAGE_CREATE", "READY", "Ready", "event_error"}

Lower(t) ==
    CASE t = "MESSAGE_CREATE" -> "message_create"
      [] t \in {"READY", "Ready"} -> "ready"
      [] OTHER -> t

\* An entry of a listener list: the function, and (not in the program) the
\* number of handle_event calls of its name the entry has been in the table for.
Entry(f) == [f |-> f, seen |-> 0]

Funs(list) == [i \in 1..Len(list) |-> list[i].f]

EmptyTable == [k \in Keys |-> <<>>]

NoError == "none"

----------------------------------------------------------------------------
(* Payloads and the data converter *)

Malformed == [kind |-> "malformed"]
Data == [kind |-> "data"]
Message(bot, prefixed, tok) ==
    [kind |-> "message", bot |-> bot, prefixed |-> prefixed, token |-> tok]

\* An exception object: its class, the handler it is tagged with (error.event)
\* and its identity.
Error(exc, f, id) == [kind |-> "error", exc |-> exc, event |-> f, id |-> id]

\* DataConverter.convert(event, data): the positional arguments for the
\* handlers, or a conversion error.
\* A converter that accepts every payload.
convert_fails_never(event, d) == FALSE

convert_fails(event, d) == d.kind = "malformed"
convert(event, d) == <<d>>

----------------------------------------------------------------------------
(* Client.handle_event *)

\* self._loop.create_task(coro(*args)): the exception it raises, or NoError.
\* The attribute lookup on self._loop comes first, then the call coro(*args).
create_task_error(lp, f, args) ==
    IF lp = None THEN "AttributeError"
    ELSE IF Arity(f) # Len(args) THEN "TypeError"
    ELSE NoError

LogEntry(op, ev, kind, coro, d, depth) ==
    [op |-> op, ev |-> ev, kind |-> kind, coro |-> coro, d |-> d, depth |-> depth]

\* A pop that empties the whole one-shot table.
PopOnce_clears(once, event) == [k \in DOMAIN once |-> <<>>]

\* A pop that leaves the list in the table.
PopOnce_keeps(once, event) == once

\* self.once_events.pop(event, []): the table it leaves.
PopOnce(once, event) == [once EXCEPT ![event] = <<>>]

RECURSIVE handle_event(_, _, _, _, _)
RECURSIVE fan_out(_, _, _, _, _, _, _, _, _)
RECURSIVE fan_out_stops(_, _, _, _, _, _, _, _, _)

\* fan_out with an except clause that leaves the loop once it has reported
\* the failure.
fan_out_stops(list, i, kind, event, args, evs, s, depth, lp) ==
    IF i > Len(list) THEN s
    ELSE
      LET coro == list[i]
          exc == create_task_error(lp, coro.f, args)
      IN IF exc = NoError
         THEN fan_out_stops(list, i + 1, kind, event, args, evs,
                      [s EXCEPT !.log = Append(@,
                          LogEntry("create_task", event, kind, coro, args[1], depth))],
                      depth, lp)
         ELSE
           LET error == Error(exc, coro.f, Len(s.log) + 1)
               s1 == [s EXCEPT !.log = Append(@,
                          LogEntry("except", event, kind, coro, error, depth))]
           IN handle_event([d |-> error, t |-> "event_error"], evs, s1,
                           depth + 1, lp)

\* One `for coro in ...: try ... except ...` loop of handle_event, from the
\* i-th handler of the list on.  s carries the one-shot table, the log of what
\* has happened and the exception on its way out, if any.
fan_out(list, i, kind, event, args, evs, s, depth, lp) ==
    IF i > Len(list) THEN s
    ELSE
      LET coro == list[i]
          exc == create_task_error(lp, coro.f, args)
      IN IF exc = NoError
         THEN fan_out(list, i + 1, kind, event, args, evs,
                      [s EXCEPT !.log = Append(@,
                          LogEntry("create_task", event, kind, coro, args[1], depth))],
                      depth, lp)
         ELSE
           LET error == Error(exc, coro.f, Len(s.log) + 1)
               s1 == [s EXCEPT !.log = Append(@,
                          LogEntry("except", event, kind, coro, error, depth))]
               s2 == handle_event([d |-> error, t |-> "event_error"],
                                  evs, s1, depth + 1, lp)
           IN IF s2.raised # NoError THEN s2
              ELSE fan_out(list, i + 1, kind, event, args, evs, s2, depth, lp)

\* handle_event with its two loops in the other order: the one-shot list first.
handle_event_once_first(msg, evs, s, depth, lp) ==
    IF depth > MaxDepth THEN [s EXCEPT !.raised = "RecursionError"]
    ELSE
      LET event == Lower(msg.t)
          s0 == [s EXCEPT !.log = Append(@,
                     LogEntry("call", event, "-", Entry("-"), msg.d, depth))]
      IN IF convert_fails(event, msg.d)
         THEN [s0 EXCEPT !.raised = "ConversionError"]
         ELSE
           LET args == convert(event, msg.d)
               popped == s0.once[event]
               s1 == fan_out(popped, 1, "once", event, args, evs,
                             [s0 EXCEPT !.once = PopOnce(s0.once, event)],
                             depth, lp)
           IN IF s1.raised # NoError THEN s1
              ELSE fan_out(evs[event], 1, "persistent", event, args, evs, s1,
                           depth, lp)

\* Client.handle_event(msg), at nesting depth `depth`.
handle_event(msg, evs, s, depth, lp) ==
    IF depth > MaxDepth THEN [s EXCEPT !.raised = "RecursionError"]
    ELSE
      LET event == Lower(msg.t)
          s0 == [s EXCEPT !.log = Append(@,
                     LogEntry("call", event, "-", Entry("-"), msg.d, depth))]
      IN IF convert_fails(event, msg.d)
         THEN [s0 EXCEPT !.raised = "ConversionError"]
         ELSE
           LET args == convert(event, msg.d)
               s1 == fan_out(evs[event], 1, "persistent", event, args, evs, s0,
                             depth, lp)
           IN IF s1.raised # NoError THEN s1
              ELSE
                LET popped == s1.once[event]
                    s2 == [s1 EXCEPT !.once = PopOnce(s1.once, event)]
                IN fan_out(popped, 1, "once", event, args, evs, s2, depth, lp)

----------------------------------------------------------------------------
(* Reading the log of a finished handle_event call *)

Indices(log, op) == {i \in 1..Len(log) : log[i].op = op}

RECURSIVE CreatedTasks(_, _)
\* The tasks a log shows to have been created, in creation order.
CreatedTasks(log, i) ==
    IF i > Len(log) THEN <<>>
    ELSE IF log[i].op = "create_task"
         THEN <<[coro |-> log[i].coro.f, arg |-> log[i].d]>>
              \o CreatedTasks(log, i + 1)
         ELSE CreatedTasks(log, i + 1)

\* Number of handle_event calls for name k among the first n entries of a log.
CallsOf(log, k, n) ==
    Cardinality({i \in 1..n : log[i].op = "call" /\ log[i].ev = k})

Min(a, b) == IF a < b THEN a ELSE b

\* The one-shot table after a dispatch, each remaining entry having been in the
\* table for the handle_event calls of its name that the log shows.
Aged(once, log) ==
    [k \in Keys |-> [i \in 1..Len(once[k]) |->
        [once[k][i] EXCEPT !.seen = Min(2, @ + CallsOf(log, k, Len(log)))]]]

----------------------------------------------------------------------------
(* Commands *)

\* A Command: its name, whether it is a pattern-style command and then the
\* names its match rule accepts, and whether its body raises when invoked.
Command(name, is_regex, accepts, raises) ==
    [name |-> name, is_regex |-> is_regex, accepts |-> accepts, raises |-> raises]

HelpCommand == Command("help", FALSE, {}, FALSE)
BoomCommand == Command("boom", FALSE, {}, TRUE)

\* A pattern-style command, registered under its pattern; its match rule
\* accepts the names "boom" and "bob".
PatternCommand == Command("b.*", TRUE, {"boom", "bob"}, FALSE)

\* Another pattern-style command; its match rule accepts "boom" only.
NarrowPatternCommand == Command("bo+m", TRUE, {"boom"}, FALSE)

\* A second command that calls itself "help".
OtherHelpCommand == Command("help", FALSE, {}, TRUE)

\* The commands user code registers and removes, and the names it looks up.
CommandPool ==
    {HelpCommand, BoomCommand, PatternCommand, NarrowPatternCommand,
     OtherHelpCommand}
CommandNames == {"help", "boom", "bob", "ping"}

\* What a lookup returns when it finds no command (Python's None).
NoCommand == Command(None, FALSE, {}, FALSE)

\* command.regex_match_func(command_name, name, command.regex_flags)
regex_match(command, name) == name \in command.accepts

RECURSIVE get_command_from(_, _, _)
get_command_from(cmds, i, name) ==
    IF i > Len(cmds) THEN NoCommand
    ELSE IF cmds[i].is_regex
         THEN IF regex_match(cmds[i], name) THEN cmds[i]
              ELSE get_command_from(cmds, i + 1, name)
         ELSE IF cmds[i].name = name THEN cmds[i]
              ELSE get_command_from(cmds, i + 1, name)

\* Client.get_command_named(name): the first command, in registration order,
\* that the loop returns; None when the loop falls through.
get_command_named(cmds, name) == get_command_from(cmds, 1, name)

\* CommandParser.parse_message(message): the command of the 4-tuple.
parse_message(cmds, message) ==
    IF message.prefixed THEN get_command_named(cmds, message.token) ELSE NoCommand

\* process_commands without the check of message.author.bot.
process_commands_any_author(cmds, message) ==
    LET command == parse_message(cmds, message)
    IN IF command # NoCommand
       THEN [executed |-> command.name,
             raised |-> IF command.raises THEN "CommandError" ELSE NoError]
       ELSE [executed |-> None, raised |-> NoError]

\* Client.process_commands(message), run to its end: which command was
\* executed (None if none) and the exception that came out of it.
process_commands(cmds, message) ==
    IF message.bot THEN [executed |-> None, raised |-> NoError]
    ELSE LET command == parse_message(cmds, message)
         IN IF command # NoCommand
            THEN [executed |-> command.name,
                  raised |-> IF command.raises THEN "CommandError" ELSE NoError]
            ELSE [executed |-> None, raised |-> NoError]

\* The body of a handler, run as a task with one argument.
run_handler(cmds, coro, arg) ==
    CASE coro = "handle_commands" -> process_commands(cmds, arg)
      [] coro = "handle_event_error" -> [executed |-> None, raised |-> NoError]
      [] OTHER -> [executed |-> None, raised |-> NoError]

----------------------------------------------------------------------------
(* Tasks of the connection lifecycle *)

\* "main" is the task run() starts; the others are tasks of user code that
\* call login(), connect() and close() themselves.
Procs == {"main", "t1", "t2"}
Tokens == {"tA", "tB"}
RunToken == "tA"

\* Locals and results of the calls of one task: whether it is inside alive_loop;
\* login's token; connect's socket, the Session its receive call is on and the
\* numbers of gateway() and start() calls it has made; the Session close() is
\* closing; how its last login/connect/close ended, whether self.closed was set
\* when connect ended, and how alive_loop ended.
NoFrame ==
    [alive |-> FALSE, tok |-> "unset", socket |-> 0, recv |-> 0, target |-> 0,
     gw |-> 0, starts |-> 0, login |-> "none", connect |-> "none",
     was_closed |-> FALSE, close |-> "none", result |-> "none"]

\* asyncio.Lock: _locked, the task that holds it (kept for the properties) and
\* the queue of tasks waiting in acquire().
FreeLock == [locked |-> FALSE, owner |-> None, waiters |-> <<>>]

----------------------------------------------------------------------------
(* Client.__init__ *)

\* What an action leaves in `last`.
Obs(op, ev, d, evs, once, log, raised, coro, executed) ==
    [op |-> op, ev |-> ev, d |-> d, events |-> evs, once |-> once, log |-> log,
     raised |-> raised, coro |-> coro, executed |-> executed]

Seen(op, raised) ==
    Obs(op, None, Data, EmptyTable, EmptyTable, <<>>, raised, None, None)

\* What a call of add_listener leaves in `last`: its arguments (the name being
\* the one the handler went under) and the exception it raised.
Registered(func, name, overwrite, once, raised) ==
    [op |-> "add_listener", coro |-> func, ev |-> name, overwrite |-> overwrite,
     once |-> once, raised |-> raised]

\* What a call of add_command leaves in `last`.
Added(command, raised) ==
    [op |-> "add_command", command |-> command, raised |-> raised]

\* What a call of remove_command or get_command_named leaves in `last`.
Looked(op, name, result, raised) ==
    [op |-> op, name |-> name, result |-> result, raised |-> raised]

Init ==
    /\ loop = None
    /\ events = [EmptyTable EXCEPT
                    !["message_create"] = <<Entry("handle_commands")>>,
                    !["event_error"] = <<Entry("handle_event_error")>>]
    /\ once_events = EmptyTable
    /\ commands = <<HelpCommand>>
    /\ tasks = <<>>
    /\ last = Seen("init", NoError)
    /\ nreg = 0
    /\ ndispatch = 0
    /\ closed = FALSE
    /\ token = "unset"
    /\ info = "unset"
    /\ intents_ok \in BOOLEAN
    /\ lock = FreeLock
    /\ ws = 0
    /\ sessions = <<>>
    /\ http_closed = FALSE
    /\ pc = [p \in Procs |-> "idle"]
    /\ frame = [p \in Procs |-> NoFrame]
    /\ ncalls = 0

----------------------------------------------------------------------------
(* Client.add_listener *)

\* A registration that puts the handler in front of the list.
Register_prepends(list, entry, overwrite) ==
    IF list # <<>> /\ ~overwrite THEN <<entry>> \o list ELSE <<entry>>

\* A registration that ignores overwrite.
Register_keeps(list, entry, overwrite) == Append(list, entry)

\* The list a registration leaves under its name.
Register(list, entry, overwrite) ==
    IF list # <<>> /\ ~overwrite THEN Append(list, entry) ELSE <<entry>>

add_listener(func, event, overwrite, once) ==
    LET name == IF event = None THEN func ELSE event
    IN /\ nreg < MaxReg
       /\ nreg' = nreg + 1
       /\ IF ~iscoroutinefunction(func)
          THEN /\ last' = Registered(func, name, overwrite, once, "TypeError")
               /\ UNCHANGED <<events, once_events>>
          ELSE /\ last' = Registered(func, name, overwrite, once, NoError)
               /\ IF once
                  THEN /\ once_events' = [once_events EXCEPT ![name] =
                                Register(@, Entry(func), overwrite)]
                       /\ UNCHANGED events
                  ELSE /\ events' = [events EXCEPT ![name] =
                                Register(@, Entry(func), overwrite)]
                       /\ UNCHANGED once_events
       /\ UNCHANGED <<loop, commands, tasks, ndispatch>>
       /\ UNCHANGED cvars

\* Registrations user code makes: under a name, or (for the function that
\* carries an event's name) under no name.
AddListener ==
    \E func \in Funcs, event \in {"event_error", "ready", None},
       overwrite \in BOOLEAN, once \in BOOLEAN :
        /\ event = None => func = "ready"
        /\ add_listener(func, event, overwrite, once)

----------------------------------------------------------------------------
(* Client.add_command *)

\* add_command that lets a command of the same name take the place of the
\* one registered first.
add_command_replaces(command) ==
    /\ Len(commands) < MaxCommands
    /\ last' = Added(command, NoError)
    /\ commands' = Append(SelectSeq(commands, LAMBDA c : c.name # command.name),
                          command)
    /\ UNCHANGED <<loop, events, once_events, tasks, nreg, ndispatch>>
    /\ UNCHANGED cvars

add_command(command) ==
    /\ Len(commands) < MaxCommands
    /\ IF \E i \in 1..Len(commands) : commands[i].name = command.name
       THEN /\ last' = Added(command, "ValueError")
            /\ UNCHANGED commands
       ELSE /\ last' = Added(command, NoError)
            /\ commands' = Append(commands, command)
    /\ UNCHANGED <<loop, events, once_events, tasks, nreg, ndispatch>>
    /\ UNCHANGED cvars

AddCommand == \E command \in {BoomCommand, HelpCommand} : add_command(command)

\* add_command called directly, with any command.
AddAnyCommand == \E command \in CommandPool : add_command(command)

----------------------------------------------------------------------------
(* Client.remove_command and Client.get_command_named, called by user code *)

HasName(cmds, name) == \E i \in 1..Len(cmds) : cmds[i].name = name

\* The entry a dict keeps under a key.
Under(cmds, name) == cmds[CHOOSE i \in 1..Len(cmds) : cmds[i].name = name]

\* self.commands.pop(command.name): KeyError when the name is not a key.
remove_command(command) ==
    /\ IF HasName(commands, command.name)
       THEN /\ commands' = SelectSeq(commands, LAMBDA c : c.name # command.name)
            /\ last' = Looked("remove_command", command.name,
                              Under(commands, command.name), NoError)
       ELSE /\ last' = Looked("remove_command", command.name, NoCommand, "KeyError")
            /\ UNCHANGED commands
    /\ UNCHANGED <<loop, events, once_events, tasks, nreg, ndispatch>>
    /\ UNCHANGED cvars

RemoveCommand == \E command \in CommandPool : remove_command(command)

GetCommandNamed ==
    \E name \in CommandNames :
        /\ last' = Looked("get_command_named", name,
                          get_command_named(commands, name), NoError)
        /\ UNCHANGED <<loop, events, once_events, commands, tasks, nreg, ndispatch>>
        /\ UNCHANGED cvars

----------------------------------------------------------------------------
(* A call of Client.handle_event from outside (the gateway, or user code).  *)
(* The caller is itself a task that suspends between two envelopes, and the *)
(* tasks the previous call created are ahead of it in the loop's queue.     *)

\* What arrives as msg["d"] under each name.
Payloads(t) ==
    IF Lower(t) = "message_create"
    THEN {Message(FALSE, TRUE, "boom"), Message(TRUE, TRUE, "boom"), Malformed}
    ELSE IF Lower(t) = "event_error"
         THEN {Error("RuntimeError", "ready", 0), Malformed}
    ELSE {Data, Malformed}

HandleEvent ==
    \E t \in WireNames : \E d \in Payloads(t) :
      LET r == handle_event([t |-> t, d |-> d], events,
                            [once |-> once_events, log |-> <<>>, raised |-> NoError],
                            0, loop)
      IN /\ ndispatch < MaxDispatch
         /\ tasks = <<>>
         /\ ndispatch' = ndispatch + 1
         /\ once_events' = Aged(r.once, r.log)
         /\ tasks' = tasks \o CreatedTasks(r.log, 1)
         /\ last' = Obs("handle_event", Lower(t), d, events, once_events, r.log,
                        r.raised, None, None)
         /\ UNCHANGED <<loop, events, commands, nreg>>
         /\ UNCHANGED cvars

----------------------------------------------------------------------------
(* The event loop runs the oldest task it holds *)

RunTask ==
    /\ tasks # <<>>
    /\ LET t == Head(tasks)
           r == run_handler(commands, t.coro, t.arg)
       IN last' = Obs("task", None, t.arg, EmptyTable, EmptyTable, <<>>,
                      r.raised, t.coro, r.executed)
    /\ tasks' = Tail(tasks)
    /\ UNCHANGED <<loop, events, once_events, commands, nreg, ndispatch>>
    /\ UNCHANGED cvars

----------------------------------------------------------------------------
(* The lock *)

\* Lock.acquire() returns at once when the lock is free and nobody waits.
LockFree(lk) == ~lk.locked /\ lk.waiters = <<>>

\* Entering `async with self.lock` without taking the lock at all.
EnterLock_unlocked(lk, p) == [lock |-> lk, granted |-> TRUE]

\* Entering `async with self.lock`: the lock afterwards, and whether the task
\* goes on (it holds the lock) or waits.
EnterLock(lk, p) ==
    IF LockFree(lk)
    THEN [lock |-> [locked |-> TRUE, owner |-> p, waiters |-> <<>>], granted |-> TRUE]
    ELSE [lock |-> [lk EXCEPT !.waiters = Append(@, p)], granted |-> FALSE]

\* Leaving `async with self.lock`: Lock.release(), which also wakes the first
\* waiter.
ExitLock(lk, p) ==
    IF lk.owner = p THEN [lk EXCEPT !.locked = FALSE, !.owner = None] ELSE lk

----------------------------------------------------------------------------
(* Client.close, Client.connect and Client.login, as continuations: each     *)
(* takes the task's frame and the values of lock, sessions and ws that the   *)
(* stretch has produced so far, and fixes closed', lock', sessions', ws',    *)
(* pc' and frame'.                                                           *)

\* close() has ended; inside alive_loop this ends the finally clause: an
\* exception of close() replaces the one connect() raised.
AfterClose(p, outcome, fr) ==
    LET fr1 == [fr EXCEPT !.close = outcome]
    IN IF fr.alive
       THEN /\ pc' = [pc EXCEPT ![p] = "done"]
            /\ frame' = [frame EXCEPT ![p] = [fr1 EXCEPT !.result =
                            IF outcome # "returned" THEN outcome ELSE fr.connect]]
       ELSE /\ pc' = [pc EXCEPT ![p] = "idle"]
            /\ frame' = [frame EXCEPT ![p] = fr1]

\* close(), lines 93-94: set the flag, then self.ws.close().
EnterClose(p, fr, lk, ss, w) ==
    /\ closed' = TRUE
    /\ lock' = lk
    /\ sessions' = ss
    /\ ws' = w
    /\ IF w = 0
       THEN AfterClose(p, "AttributeError", fr)
       ELSE /\ pc' = [pc EXCEPT ![p] = "close_ws"]
            /\ frame' = [frame EXCEPT ![p] = [fr EXCEPT !.target = w]]

\* connect() has ended, by returning or by an exception; inside alive_loop the
\* finally clause runs close().
AfterConnect(p, outcome, fr, lk, ss, w) ==
    LET fr1 == [fr EXCEPT !.connect = outcome, !.was_closed = closed]
    IN IF fr.alive
       THEN EnterClose(p, fr1, lk, ss, w)
       ELSE /\ closed' = closed
            /\ lock' = lk
            /\ sessions' = ss
            /\ ws' = w
            /\ pc' = [pc EXCEPT ![p] = "idle"]
            /\ frame' = [frame EXCEPT ![p] = fr1]

\* `while not self.closed` of the outer loop, line 71, always true.
outer_loop_runs_forever(c) == TRUE

\* `while not self.closed` of the outer loop, line 71.
outer_loop_runs(c) == ~c

\* The head of connect()'s outer loop, lines 71-74.
OuterLoop(p, fr, lk, ss, w) ==
    IF ~outer_loop_runs(closed) THEN AfterConnect(p, "returned", fr, lk, ss, w)
    ELSE IF token = "unset"
         THEN AfterConnect(p, "AttributeError", fr, lk, ss, w)
    ELSE
      LET e == EnterLock(lk, p)
          fr1 == [fr EXCEPT !.socket = Len(ss) + 1]
      IN /\ Len(ss) < MaxSessions
         /\ closed' = closed
         /\ sessions' = Append(ss, "new")
         /\ ws' = w
         /\ lock' = e.lock
         /\ IF e.granted
            THEN /\ pc' = [pc EXCEPT ![p] = "connect_gateway"]
                 /\ frame' = [frame EXCEPT ![p] = [fr1 EXCEPT !.gw = @ + 1]]
            ELSE /\ pc' = [pc EXCEPT ![p] = "connect_wait"]
                 /\ frame' = [frame EXCEPT ![p] = fr1]

\* The head of connect()'s inner loop, lines 81-82.
InnerLoop(p, fr, lk, ss, w) ==
    IF ~closed
    THEN /\ closed' = closed
         /\ lock' = lk
         /\ sessions' = ss
         /\ ws' = w
         /\ pc' = [pc EXCEPT ![p] = "connect_recv"]
         /\ frame' = [frame EXCEPT ![p] = [fr EXCEPT !.recv = w]]
    ELSE OuterLoop(p, fr, lk, ss, w)

\* connect() is called.
EnterConnect(p, fr, lk) ==
    OuterLoop(p, [fr EXCEPT !.gw = 0, !.starts = 0, !.socket = 0, !.recv = 0,
                            !.connect = "none"], lk, sessions, ws)

\* login(token), lines 66-67.
EnterLogin(p, fr, tok) ==
    LET e == EnterLock(lock, p)
    IN /\ token' = tok
       /\ lock' = e.lock
       /\ pc' = [pc EXCEPT ![p] = IF e.granted THEN "login_call" ELSE "login_wait"]
       /\ frame' = [frame EXCEPT ![p] = [fr EXCEPT !.tok = tok, !.login = "none"]]
       /\ UNCHANGED <<closed, sessions, ws>>

----------------------------------------------------------------------------
(* The steps of the tasks *)

\* run(token): alive_loop stores the loop and calls login, lines 85-86.
AliveLoop ==
    /\ pc["main"] = "idle"
    /\ loop = None
    /\ loop' = "running"
    /\ EnterLogin("main", [frame["main"] EXCEPT !.alive = TRUE], RunToken)
    /\ UNCHANGED <<events, once_events, commands, tasks, last, nreg, ndispatch>>
    /\ UNCHANGED <<info, intents_ok, http_closed, ncalls>>

\* User code calls login(token).
Login(p, tok) ==
    /\ p # "main" /\ pc[p] = "idle" /\ ncalls < MaxCalls
    /\ ncalls' = ncalls + 1
    /\ EnterLogin(p, frame[p], tok)
    /\ UNCHANGED <<info, intents_ok, http_closed>>
    /\ UNCHANGED dvars

\* User code calls connect().
Connect(p) ==
    /\ p # "main" /\ pc[p] = "idle" /\ ncalls < MaxCalls
    /\ ncalls' = ncalls + 1
    /\ EnterConnect(p, frame[p], lock)
    /\ UNCHANGED <<token, info, intents_ok, http_closed>>
    /\ UNCHANGED dvars

\* User code calls close().
Close(p) ==
    /\ p # "main" /\ pc[p] = "idle" /\ ncalls < MaxCalls
    /\ ncalls' = ncalls + 1
    /\ EnterClose(p, [frame[p] EXCEPT !.close = "none"], lock, sessions, ws)
    /\ UNCHANGED <<token, info, intents_ok, http_closed>>
    /\ UNCHANGED dvars

\* The first waiter of the released lock takes it and goes on: login with its
\* REST call, connect with gateway(), line 74.
LockGranted(p) ==
    /\ pc[p] \in {"login_wait", "connect_wait"}
    /\ ~lock.locked /\ lock.waiters # <<>> /\ Head(lock.waiters) = p
    /\ lock' = [locked |-> TRUE, owner |-> p, waiters |-> Tail(lock.waiters)]
    /\ IF pc[p] = "login_wait"
       THEN /\ pc' = [pc EXCEPT ![p] = "login_call"]
            /\ UNCHANGED frame
       ELSE /\ pc' = [pc EXCEPT ![p] = "connect_gateway"]
            /\ frame' = [frame EXCEPT ![p].gw = @ + 1]
    /\ UNCHANGED <<closed, token, info, intents_ok, ws, sessions, http_closed, ncalls>>
    /\ UNCHANGED dvars

\* httphandler.login(token) comes back, line 68; alive_loop goes on to connect().
LoginReturns(p, ok) ==
    /\ pc[p] = "login_call"
    /\ info' = IF ok THEN frame[p].tok ELSE info
    /\ LET fr == [frame[p] EXCEPT !.login = IF ok THEN "returned" ELSE "AuthError"]
           lk == ExitLock(lock, p)
       IN IF fr.alive /\ ok
          THEN EnterConnect(p, fr, lk)
          ELSE /\ pc' = [pc EXCEPT ![p] = IF fr.alive THEN "done" ELSE "idle"]
               /\ frame' = [frame EXCEPT ![p] =
                               IF fr.alive THEN [fr EXCEPT !.result = "AuthError"] ELSE fr]
               /\ lock' = lk
               /\ UNCHANGED <<closed, sessions, ws>>
    /\ UNCHANGED <<token, intents_ok, http_closed, ncalls>>
    /\ UNCHANGED dvars

\* httphandler.gateway() comes back, lines 74-79: on success the intents are
\* checked and socket.start(g_url) is begun.
GatewayReturns(p, ok) ==
    /\ pc[p] = "connect_gateway"
    /\ IF ~ok
       THEN AfterConnect(p, "GatewayError", frame[p], ExitLock(lock, p), sessions, ws)
       ELSE IF ~intents_ok
       THEN AfterConnect(p, "TypeError", frame[p], ExitLock(lock, p), sessions, ws)
       ELSE /\ pc' = [pc EXCEPT ![p] = "connect_start"]
            /\ frame' = [frame EXCEPT ![p].starts = @ + 1]
            /\ sessions' = [sessions EXCEPT ![frame[p].socket] = "starting"]
            /\ UNCHANGED <<closed, lock, ws>>
    /\ UNCHANGED <<token, info, intents_ok, http_closed, ncalls>>
    /\ UNCHANGED dvars

\* asyncio.wait_for(socket.start(g_url), timeout=30) comes back, lines 79-82.
StartReturns(p, outcome) ==
    /\ pc[p] = "connect_start"
    /\ LET id == frame[p].socket
           lk == ExitLock(lock, p)
       IN IF outcome = "ok"
          THEN InnerLoop(p, frame[p], lk, [sessions EXCEPT ![id] = "open"], id)
          ELSE AfterConnect(p, outcome, frame[p], lk,
                            [sessions EXCEPT ![id] = "failed"], ws)
    /\ UNCHANGED <<token, info, intents_ok, http_closed, ncalls>>
    /\ UNCHANGED dvars

\* What a Session is once its receive_events() has returned.
AfterReceive(st) == IF st = "open" THEN "ended" ELSE st

\* self.ws.receive_events() comes back, lines 81-82.
ReceiveReturns(p, ok) ==
    /\ pc[p] = "connect_recv"
    /\ LET ss == [sessions EXCEPT ![frame[p].recv] = AfterReceive(@)]
       IN IF ok
          THEN InnerLoop(p, frame[p], lock, ss, ws)
          ELSE AfterConnect(p, "ReceiveError", frame[p], lock, ss, ws)
    /\ UNCHANGED <<token, info, intents_ok, http_closed, ncalls>>
    /\ UNCHANGED dvars

\* self.ws.close() comes back, lines 94-95.
WsCloseReturns(p, ok) ==
    /\ pc[p] = "close_ws"
    /\ IF ok
       THEN /\ sessions' = [sessions EXCEPT ![frame[p].target] = "closed"]
            /\ pc' = [pc EXCEPT ![p] = "close_http"]
            /\ UNCHANGED frame
       ELSE /\ AfterClose(p, "CloseError", frame[p])
            /\ UNCHANGED sessions
    /\ UNCHANGED <<closed, token, info, intents_ok, lock, ws, http_closed, ncalls>>
    /\ UNCHANGED dvars

\* self.httphandler.close() comes back, line 95.
HttpCloseReturns(p) ==
    /\ pc[p] = "close_http"
    /\ http_closed' = TRUE
    /\ AfterClose(p, "returned", frame[p])
    /\ UNCHANGED <<closed, token, info, intents_ok, lock, ws, sessions, ncalls>>
    /\ UNCHANGED dvars

----------------------------------------------------------------------------
(* Specifications *)

\* The registry, the dispatcher and the handler tasks of a client whose
\* intents are valid.
DispatchInit == Init /\ intents_ok

Next == AddListener \/ AddCommand \/ HandleEvent \/ RunTask \/ AliveLoop

Spec == DispatchInit /\ [][Next]_vars

\* The connection lifecycle: run() and user tasks calling login, connect and
\* close.
ConnNext ==
    \/ AliveLoop
    \/ \E p \in Procs, tok \in Tokens : Login(p, tok)
    \/ \E p \in Procs : Connect(p)
    \/ \E p \in Procs : Close(p)
    \/ \E p \in Procs : LockGranted(p)
    \/ \E p \in Procs, ok \in BOOLEAN : LoginReturns(p, ok)
    \/ \E p \in Procs, ok \in BOOLEAN : GatewayReturns(p, ok)
    \/ \E p \in Procs, outcome \in {"ok", "StartError", "TimeoutError"} :
          StartReturns(p, outcome)
    \/ \E p \in Procs, ok \in BOOLEAN : ReceiveReturns(p, ok)
    \/ \E p \in Procs, ok \in BOOLEAN : WsCloseReturns(p, ok)
    \/ \E p \in Procs : HttpCloseReturns(p)

SpecConn == Init /\ [][ConnNext]_vars

\* The command registry: user code adding, removing and looking up commands.
CmdNext == AddAnyCommand \/ RemoveCommand \/ GetCommandNamed

SpecCmd == DispatchInit /\ [][CmdNext]_vars

----------------------------------------------------------------------------
(* Properties of the dispatcher *)

Dispatched == last.op = "handle_event"

\* Entries of the log of the last dispatch made by the outermost call.
Outer(op) == {i \in Indices(last.log, op) : last.log[i].depth = 0}

\* The event_error dispatches made for the failure logged at index i.
ReportsOf(i) ==
    {j \in Indices(last.log, "call") :
        /\ last.log[j].ev = "event_error"
        /\ last.log[j].d.kind = "error"
        /\ last.log[j].d.id = i}

RECURSIVE OuterAttempts(_, _)
\* The handlers the outermost call tried to schedule, in order.
OuterAttempts(log, i) ==
    IF i > Len(log) THEN <<>>
    ELSE IF log[i].depth = 0 /\ log[i].op \in {"create_task", "except"}
         THEN <<log[i].coro.f>> \o OuterAttempts(log, i + 1)
         ELSE OuterAttempts(log, i + 1)

\* What C1 says of the last dispatch: each scheduling failure has exactly one
\* event_error dispatch, carrying the error tagged with the failing handler,
\* and all handlers of the name were gone through.
Isolated ==
    /\ \A i \in Outer("except") :
          /\ Cardinality(ReportsOf(i)) = 1
          /\ \A j \in ReportsOf(i) :
                /\ last.log[j].d = last.log[i].d
                /\ last.log[j].d.event = last.log[i].coro.f
    /\ Outer("except") # {} =>
          OuterAttempts(last.log, 1) =
              Funs(last.events[last.ev]) \o Funs(last.once[last.ev])

\* C1 as stated: in handle_event for a name other than event_error, a handler
\* that fails at scheduling gets exactly one event_error dispatch carrying the
\* error tagged with that handler, and every remaining persistent and one-shot
\* handler of the name is still scheduled.
C1_Original ==
    (Dispatched /\ last.ev # "event_error") => Isolated

\* C1 as amended: the same, for every dispatch out of which no exception
\* comes, that is, whose event_error dispatches all returned.
C1_FailureIsolated ==
    (Dispatched /\ last.ev # "event_error" /\ last.raised = NoError) => Isolated

\* A dispatch in which a handler failed at scheduling, the event_error
\* dispatch returned and a later handler of the same name was scheduled.
C1_Witness ==
    /\ Dispatched /\ last.ev # "event_error" /\ last.raised = NoError
    /\ \E i \in Outer("except") : \E j \in Outer("create_task") : j > i

\* C2: a failure raised while a scheduled handler or a command body is running
\* is reported by a dispatch of the event_error event.
C2_RunFailureReported ==
    (last.op = "task" /\ last.raised # NoError) =>
        \E j \in Indices(last.log, "call") :
            /\ last.log[j].ev = "event_error"
            /\ last.log[j].d.kind = "error"
            /\ last.log[j].d.event = last.coro

\* C3: a one-shot handler is scheduled only by the first dispatch of its name
\* made after its registration, never by a later one, also when the first
\* dispatch failed before finishing its fan-out.
C3_OnlyFirstDispatch ==
    Dispatched =>
        \A i \in Indices(last.log, "create_task") :
            last.log[i].kind = "once" =>
                last.log[i].coro.seen + CallsOf(last.log, last.log[i].ev, i) = 1

\* C4: once handle_event has returned or raised, the one-shot table has no
\* entry for the name it was called for.
C4_OneShotDrained ==
    Dispatched => once_events[last.ev] = <<>>

\* The message a handle_commands task was given comes from a bot.
BotMessageTask ==
    /\ last.op = "task"
    /\ last.coro = "handle_commands"
    /\ last.d.kind = "message"
    /\ last.d.bot

\* C12: with the default message_create handler installed, a message whose
\* author is a bot never causes a command to be executed.
C12_BotNeverExecutes ==
    BotMessageTask => last.executed = None

\* The default handler ran on a bot's message whose text names a registered
\* command.
C12_Witness ==
    /\ BotMessageTask
    /\ parse_message(commands, last.d) # NoCommand

\* The step is a call of add_listener that registered its handler.
RegistersListener ==
    nreg' # nreg /\ last'.op = "add_listener" /\ last'.raised = NoError

\* C13: add_listener with once=False and overwrite=False appends its handler
\* to the end of the name's persistent sequence and changes no other sequence.
C13_AppendsInCallOrder ==
    [][(RegistersListener /\ ~last'.once /\ ~last'.overwrite) =>
          /\ Funs(events'[last'.ev]) = Append(Funs(events[last'.ev]), last'.coro)
          /\ \A k \in Keys \ {last'.ev} : events'[k] = events[k]
          /\ once_events' = once_events]_vars

\* Two different handlers registered one after the other under "ready",
\* without overwrite.
C13_Witness ==
    /\ last.op = "add_listener" /\ last.raised = NoError
    /\ ~last.once /\ ~last.overwrite /\ last.ev = "ready"
    /\ Len(events["ready"]) = 2
    /\ events["ready"][1].f # events["ready"][2].f
    /\ events["ready"][2].f = last.coro

\* C14: add_listener with overwrite=True leaves exactly [h] as the sequence of
\* its kind under the name; a later registration without overwrite keeps what
\* is there as the front of the sequence and adds only its own handler, so the
\* sequence still starts with h and nothing older comes back.
C14_OverwriteStartsFresh ==
    [][RegistersListener =>
          LET before == IF last'.once THEN once_events[last'.ev]
                        ELSE events[last'.ev]
              after == IF last'.once THEN once_events'[last'.ev]
                       ELSE events'[last'.ev]
          IN IF last'.overwrite
             THEN Funs(after) = <<last'.coro>>
             ELSE /\ Len(after) = Len(before) + 1
                  /\ SubSeq(after, 1, Len(before)) = before]_vars

\* The built-in event_error handler was overwritten and a further handler was
\* registered after that without overwrite.
C14_Witness ==
    /\ last.op = "add_listener" /\ last.raised = NoError
    /\ ~last.once /\ ~last.overwrite /\ last.ev = "event_error"
    /\ Len(events["event_error"]) = 2
    /\ \A i \in 1..2 : events["event_error"][i].f # "handle_event_error"

IsPrefix(a, b) == Len(a) <= Len(b) /\ a = SubSeq(b, 1, Len(a))

\* Attempts of the outermost call to schedule a handler.
OuterTries == Outer("create_task") \cup Outer("except")

\* C16: within one handle_event call the persistent handlers of the name are
\* scheduled before its one-shot handlers, each kind in registration order.
C16_PersistentThenOnce ==
    Dispatched =>
        /\ IsPrefix(OuterAttempts(last.log, 1),
                    Funs(last.events[last.ev]) \o Funs(last.once[last.ev]))
        /\ \A i, j \in OuterTries :
              (last.log[i].kind = "persistent" /\ last.log[j].kind = "once")
                  => i < j

\* A dispatch that scheduled a persistent and a one-shot handler of its name.
C16_Witness ==
    /\ Dispatched
    /\ \E i, j \in Outer("create_task") :
          last.log[i].kind = "persistent" /\ last.log[j].kind = "once"

\* C17: when the conversion of the payload fails, the conversion error comes
\* out of the call, no handler is scheduled and no event_error is dispatched.
C17_ConversionErrorPropagates ==
    (Dispatched /\ last.d = Malformed) =>
        /\ last.raised = "ConversionError"
        /\ Len(last.log) = 1
        /\ tasks = <<>>

\* A dispatch with a malformed payload for a name that has handlers of both
\* kinds, on a running loop.
C17_Witness ==
    /\ Dispatched /\ last.d = Malformed /\ loop # None
    /\ last.events[last.ev] # <<>> /\ last.once[last.ev] # <<>>

\* The last dispatch was for a name without handlers, with a payload the
\* converter accepts.
NoHandlers ==
    /\ Dispatched /\ last.d # Malformed
    /\ last.events[last.ev] = <<>> /\ last.once[last.ev] = <<>>

\* C18: handle_event for a name with no handler of either kind schedules
\* nothing, raises nothing and leaves both listener tables as they were.
C18_NoHandlersNoOp ==
    NoHandlers =>
        /\ last.raised = NoError
        /\ Len(last.log) = 1
        /\ tasks = <<>>
        /\ events = last.events
        /\ once_events = last.once

\* Such a dispatch while another name has a one-shot handler waiting.
C18_Witness ==
    /\ NoHandlers
    /\ \E k \in Keys : last.once[k] # <<>>

\* C20 as stated: the recursion of handle_event through event_error is
\* bounded: no dispatch runs into the interpreter's recursion limit, and each
\* scheduling failure has at most one event_error dispatch.
C20_Original ==
    Dispatched =>
        /\ last.raised # "RecursionError"
        /\ \A i \in Indices(last.log, "except") : Cardinality(ReportsOf(i)) <= 1

\* A persistent handler of event_error failed at scheduling in the last
\* dispatch.
ErrorHandlerFailed ==
    \E i \in Indices(last.log, "except") :
        last.log[i].ev = "event_error" /\ last.log[i].kind = "persistent"

\* C20 as amended: in a dispatch in which no persistent handler of event_error
\* fails at scheduling, every scheduling failure has exactly one event_error
\* dispatch, the nesting of handle_event is at most two deep and the
\* interpreter's recursion limit is not reached.
C20_BoundedRecursion ==
    (Dispatched /\ ~ErrorHandlerFailed) =>
        /\ last.raised # "RecursionError"
        /\ \A i \in 1..Len(last.log) : last.log[i].depth <= 2
        /\ \A i \in Indices(last.log, "except") : Cardinality(ReportsOf(i)) = 1

\* A dispatch in which a one-shot handler of event_error failed at scheduling
\* inside the event_error dispatch made for another failure.
C20_Witness ==
    /\ Dispatched /\ ~ErrorHandlerFailed
    /\ \E i \in Indices(last.log, "call") : last.log[i].depth = 2

----------------------------------------------------------------------------
(* Properties of the command registry *)

\* The registered pattern-style commands whose match rule accepts the name, by
\* position.
Accepting(cmds, name) ==
    {i \in 1..Len(cmds) : cmds[i].is_regex /\ regex_match(cmds[i], name)}

\* What C11 says a lookup returns.
resolve(cmds, name) ==
    IF HasName(cmds, name) THEN Under(cmds, name)
    ELSE IF Accepting(cmds, name) # {}
         THEN cmds[CHOOSE i \in Accepting(cmds, name) :
                      \A j \in Accepting(cmds, name) : i <= j]
    ELSE NoCommand

\* C11: get_command_named returns the command registered under exactly the
\* name whenever there is one, otherwise the first registered pattern-style
\* command whose match rule accepts the name, otherwise no command, and it
\* does not raise.
C11_ExactFirst ==
    last.op = "get_command_named" =>
        /\ last.raised = NoError
        /\ last.result = resolve(commands, last.name)

\* C15: add_command with a command whose name is already in the registry
\* fails with the duplicate-name error and leaves the registry as it was; with
\* a new name it adds the command.
C15_DuplicateRejected ==
    [][(last'.op = "add_command" /\ last' # last) =>
          IF HasName(commands, last'.command.name)
          THEN last'.raised = "ValueError" /\ commands' = commands
          ELSE last'.raised = NoError /\ commands' = Append(commands, last'.command)]_vars

\* add_command of another command with a registered name has failed, and the
\* name still maps to the command registered first.
C15_Witness ==
    /\ last.op = "add_command" /\ last.raised = "ValueError"
    /\ HasName(commands, last.command.name)
    /\ Under(commands, last.command.name) # last.command

----------------------------------------------------------------------------
(* Properties of the connection lifecycle *)

ConnectionFailures == {"GatewayError", "StartError", "TimeoutError"}

\* C5: a failure of gateway resolution or of opening the Session, with close()
\* not called, does not end connect() and does not reach its caller.
C5_FailureRetried ==
    \A p \in Procs :
        frame[p].connect \in ConnectionFailures => frame[p].was_closed

\* C6: receive_events() is never called again on a Session whose receive call
\* has returned.
C6_NoReceiveOnEnded ==
    \A p \in Procs :
        pc[p] = "connect_recv" => sessions[frame[p].recv] # "ended"

\* C7 as stated: once close() has set the flag, no task enters a gateway
\* resolution or a Session start.
C7_Original ==
    [][closed =>
         \A p \in Procs :
            /\ pc'[p] = "connect_gateway" => pc[p] = "connect_gateway"
            /\ pc'[p] = "connect_start" => pc[p] = "connect_start"]_vars

\* C7 as amended: once close() has set the flag, connect() begins no further
\* connection attempt: no WebSocket is constructed any more.
C7_NoNewAttempt ==
    [][closed => Len(sessions') = Len(sessions)]_vars

\* A connect() that made an attempt and then returned because the flag was set.
C7_Witness ==
    /\ closed
    /\ \E p \in Procs : frame[p].connect = "returned" /\ frame[p].socket # 0

\* C8: a close() that has ended, in whatever state it was called, has set the
\* flag and closed the REST layer; and when alive_loop has ended after calling
\* connect(), the REST layer is closed.
C8_CloseClosesAll ==
    /\ \A p \in Procs : frame[p].close # "none" => closed /\ http_closed
    /\ (pc["main"] = "done" /\ frame["main"].connect # "none") => http_closed

InIO == {p \in Procs : pc[p] \in {"login_call", "connect_gateway", "connect_start"}}

\* C9: at most one task at a time is inside a REST login call, a gateway
\* resolution or a Session start, and it holds the lock.
C9_ExclusiveIO ==
    /\ Cardinality(InIO) <= 1
    /\ \A p \in InIO : lock.locked /\ lock.owner = p

\* One task inside such a call while another one waits for the lock.
C9_Witness ==
    /\ InIO # {}
    /\ \E q \in Procs : pc[q] \in {"login_wait", "connect_wait"}

\* C10: a connect() that ended with the type error for invalid intents made
\* no gateway resolution and no Session start.
C10_TypeErrorBeforeIO ==
    \A p \in Procs :
        frame[p].connect = "TypeError" => frame[p].gw = 0 /\ frame[p].starts = 0

\* C19: whenever the lock is free (not held, nobody waiting for it), the
\* stored token and the stored account info come from the same successful
\* login call: a login that waits for the lock or fails has changed neither.
C19_TokenMatchesInfo ==
    LockFree(lock) => token = info
====
